---- MODULE Spec2Model ----
(***************************************************************************)
(* Store monitoring: the asynchronous report-job lifecycle                 *)
(* (app/services/report_service.py, app/controllers/report_controller.py), *)
(* the data ingestion that runs beside it (app/main.py,                    *)
(* app/services/data_ingestion_service.py) and the uptime/downtime         *)
(* computation (app/services/uptime_calculation_service.py).               *)
(*                                                                         *)
(* Time.  An instant is [s, u]: whole seconds since the model epoch (a     *)
(* Monday, 00:00:00 UTC) and microseconds 0..999999.  A float number of    *)
(* hours is kept exactly, as the duration [s, u] that many hours long      *)
(* (x hours <-> x * 3600 seconds), so float rounding is not modelled.      *)
(***************************************************************************)
EXTENDS Integers, Sequences, FiniteSets, TLC

\* ------------------------------------------------------------------ bounds
MaxJobs == 2

\* ------------------------------------------------------- program constants
SecondsPerDay == 86400
SecondsPerHour == 3600
MicrosPerSecond == 1000000
LastMicro == 999999
MinutesPerHour == 60
DaysPerWeek == 7

\* ---------------------------------------------------------------- instants
T(s, u) == [s |-> s, u |-> u]

TLt(a, b) == a.s < b.s \/ (a.s = b.s /\ a.u < b.u)

TLe(a, b) == a.s < b.s \/ (a.s = b.s /\ a.u <= b.u)

\* b - a as a duration (timedelta), for a <= b
TSub(b, a) ==
    IF b.u >= a.u THEN [s |-> b.s - a.s, u |-> b.u - a.u]
    ELSE [s |-> b.s - a.s - 1, u |-> b.u + MicrosPerSecond - a.u]

DZero == [s |-> 0, u |-> 0]

DAdd(a, b) ==
    IF a.u + b.u >= MicrosPerSecond
    THEN [s |-> a.s + b.s + 1, u |-> a.u + b.u - MicrosPerSecond]
    ELSE [s |-> a.s + b.s, u |-> a.u + b.u]

\* d * k for a small natural k
DMul(d, k) ==
    [s |-> d.s * k + ((d.u * k) \div MicrosPerSecond),
     u |-> (d.u * k) % MicrosPerSecond]

\* max(0, a - b) on numbers
MaxZeroDiff(a, b) == IF TLe(b, a) THEN TSub(a, b) ELSE DZero

\* ------------------------------------------------- timezone-aware datetimes
\* A local datetime is an instant with the UTC offset (seconds) its tzinfo
\* carries: pytz's astimezone() fixes the offset in force at that instant, and
\* replace() and + timedelta keep that tzinfo.
ChicagoDstStart == 6 * SecondsPerDay + 8 * SecondsPerHour

ZoneNames == {"America/Chicago", "Asia/Kolkata", "UTC"}

\* utcoffset of the zone at a UTC instant (America/Chicago changes from CST to
\* CDT at ChicagoDstStart, the second Sunday of March, 08:00 UTC).
UtcOffset(zone, t) ==
    CASE zone = "America/Chicago" ->
            IF t.s < ChicagoDstStart THEN -6 * SecondsPerHour ELSE -5 * SecondsPerHour
      [] zone = "Asia/Kolkata" -> 5 * SecondsPerHour + 1800
      [] OTHER -> 0

astimezone(t, zone) == [t |-> t, off |-> UtcOffset(zone, t)]

Wall(L) == L.t.s + L.off

DateOf(L) == Wall(L) \div SecondsPerDay

weekday(L) == DateOf(L) % DaysPerWeek

\* L.replace(hour, minute, second, microsecond): same date, same tzinfo
replace(L, tod, us) ==
    [t |-> T(DateOf(L) * SecondsPerDay + tod - L.off, us), off |-> L.off]

PlusDays(L, n) == [t |-> T(L.t.s + n * SecondsPerDay, L.t.u), off |-> L.off]

LMax(a, b) == IF TLt(a.t, b.t) THEN b ELSE a

LMin(a, b) == IF TLt(b.t, a.t) THEN b ELSE a

EndOfDayTod == 86399


\* ---------------------------------------------------------- business hours
\* BusinessHours rows: [store_id, day_of_week, start_time_local, end_time_local]
\* with the times as seconds of the day.  Optional results are <<>> or <<x>>.
NoneTime == T(-1, 0)

RECURSIVE create_24_7_business_hours(_, _)
create_24_7_business_hours(store_id, day) ==
    IF day >= DaysPerWeek THEN <<>>
    ELSE <<[store_id |-> store_id, day_of_week |-> day,
            start_time_local |-> 0, end_time_local |-> EndOfDayTod]>>
         \o create_24_7_business_hours(store_id, day + 1)

SelectSeq2(seq, store_id) ==
    SelectSeq(seq, LAMBDA r : r.store_id = store_id)

get_business_hours(business_hours_table, store_id) ==
    LET found == SelectSeq2(business_hours_table, store_id)
    IN IF found = <<>> THEN create_24_7_business_hours(store_id, 0) ELSE found

\* _get_business_hours_for_day falling back to the store's first rule
get_business_hours_for_day_any(business_hours, wd) ==
    LET hit == SelectSeq(business_hours, LAMBDA bh : bh.day_of_week = wd)
    IN IF hit # <<>> THEN <<hit[1]>>
       ELSE IF business_hours # <<>> THEN <<business_hours[1]>> ELSE <<>>

get_business_hours_for_day(business_hours, wd) ==
    LET hit == SelectSeq(business_hours, LAMBDA bh : bh.day_of_week = wd)
    IN IF hit = <<>> THEN <<>> ELSE <<hit[1]>>

DefaultTimezone == "America/Chicago"

get_store_timezone(timezone_table, store_id) ==
    LET found == SelectSeq2(timezone_table, store_id)
    IN IF found = <<>> THEN DefaultTimezone ELSE found[1].timezone_str

\* ------------------------------------------------------------ observations
\* StoreStatus rows: [store_id, timestamp_utc, status]
RECURSIVE InsertByTimestamp(_, _)
InsertByTimestamp(sorted, row) ==
    IF sorted = <<>> THEN <<row>>
    ELSE IF TLt(row.timestamp_utc, sorted[1].timestamp_utc)
         THEN <<row>> \o sorted
         ELSE <<sorted[1]>> \o InsertByTimestamp(Tail(sorted), row)

RECURSIVE OrderByTimestamp(_)
OrderByTimestamp(rows) ==
    IF rows = <<>> THEN <<>>
    ELSE InsertByTimestamp(OrderByTimestamp(SubSeq(rows, 1, Len(rows) - 1)),
                           rows[Len(rows)])

get_status_observations(store_status_table, store_id, start_time, end_time) ==
    OrderByTimestamp(
        SelectSeq(store_status_table,
                  LAMBDA r : /\ r.store_id = store_id
                             /\ TLe(start_time, r.timestamp_utc)
                             /\ TLe(r.timestamp_utc, end_time)))

\* --------------------------------------------------------- interpolation
RECURSIVE SumActive(_, _, _)
SumActive(observations, i, uptime) ==
    IF i >= Len(observations) THEN uptime
    ELSE SumActive(observations, i + 1,
                   IF observations[i].status = "active"
                   THEN DAdd(uptime, TSub(observations[i + 1].t, observations[i].t))
                   ELSE uptime)

\* _interpolate_uptime giving each interval the state of its later observation
interpolate_uptime_next_state(observations, period_start, period_end) ==
    LET o1 == IF observations = <<>> \/ TLt(period_start, observations[1].t)
              THEN <<[t |-> period_start,
                      status |-> IF observations = <<>> THEN "active"
                                 ELSE observations[1].status]>> \o observations
              ELSE observations
        o2 == IF o1 = <<>> \/ TLt(o1[Len(o1)].t, period_end)
              THEN Append(o1, [t |-> period_end, status |-> o1[Len(o1)].status])
              ELSE o1
        RECURSIVE Sum(_)
        Sum(i) ==
            IF i >= Len(o2) THEN DZero
            ELSE DAdd(IF o2[i + 1].status = "active"
                      THEN TSub(o2[i + 1].t, o2[i].t) ELSE DZero,
                      Sum(i + 1))
    IN Sum(1)

interpolate_uptime(observations, period_start, period_end) ==
    LET o1 == IF observations = <<>> \/ TLt(period_start, observations[1].t)
              THEN <<[t |-> period_start,
                      status |-> IF observations = <<>> THEN "active"
                                 ELSE observations[1].status]>> \o observations
              ELSE observations
        o2 == IF o1 = <<>> \/ TLt(o1[Len(o1)].t, period_end)
              THEN Append(o1, [t |-> period_end, status |-> o1[Len(o1)].status])
              ELSE o1
    IN SumActive(o2, 1, DZero)

BhEnd(bh, day_start) ==
    IF bh.end_time_local <= bh.start_time_local
    THEN PlusDays(replace(day_start, bh.end_time_local, 0), 1)
    ELSE replace(day_start, bh.end_time_local, 0)

\* the observations the day's segment keeps, as (local time, status) pairs
BusinessObservations(status_observations, period_start, period_end) ==
    LET kept == SelectSeq(status_observations,
                          LAMBDA o : /\ TLe(period_start.t, o.timestamp_utc)
                                     /\ TLe(o.timestamp_utc, period_end.t))
    IN [i \in 1..Len(kept) |-> [t |-> kept[i].timestamp_utc, status |-> kept[i].status]]

\* calculate_day_uptime counting a segment without observations as downtime
calculate_day_uptime_pessimistic(status_observations, bh, day_start, day_end) ==
    LET bh_start == replace(day_start, bh.start_time_local, 0)
        bh_end == BhEnd(bh, day_start)
        period_start == LMax(bh_start, day_start)
        period_end == LMin(bh_end, day_end)
        business_observations ==
            BusinessObservations(status_observations, period_start, period_end)
    IN IF ~TLt(period_start.t, period_end.t) THEN DZero
       ELSE IF business_observations = <<>> THEN DZero
       ELSE interpolate_uptime(business_observations, period_start.t, period_end.t)

\* calculate_day_uptime without the cut of the rule's end at the day's end
calculate_day_uptime_unclipped(status_observations, bh, day_start, day_end) ==
    LET bh_start == replace(day_start, bh.start_time_local, 0)
        bh_end == BhEnd(bh, day_start)
        period_start == LMax(bh_start, day_start)
        period_end == bh_end
        business_observations ==
            BusinessObservations(status_observations, period_start, period_end)
    IN IF ~TLt(period_start.t, period_end.t) THEN DZero
       ELSE IF business_observations = <<>> THEN TSub(period_end.t, period_start.t)
       ELSE interpolate_uptime(business_observations, period_start.t, period_end.t)

calculate_day_uptime(status_observations, bh, day_start, day_end) ==
    LET bh_start == replace(day_start, bh.start_time_local, 0)
        bh_end == BhEnd(bh, day_start)
        period_start == LMax(bh_start, day_start)
        period_end == LMin(bh_end, day_end)
        business_observations ==
            BusinessObservations(status_observations, period_start, period_end)
    IN IF ~TLt(period_start.t, period_end.t) THEN DZero
       ELSE IF business_observations = <<>> THEN TSub(period_end.t, period_start.t)
       ELSE interpolate_uptime(business_observations, period_start.t, period_end.t)

DayEnd(current_time, end_local) ==
    LMin(end_local, replace(current_time, EndOfDayTod, LastMicro))

NextDay(current_time) == replace(PlusDays(current_time, 1), 0, 0)

RECURSIVE UptimeDays(_, _, _, _, _)
UptimeDays(status_observations, business_hours, current_time, end_local, total_uptime) ==
    IF ~TLt(current_time.t, end_local.t) THEN total_uptime
    ELSE LET day_end == DayEnd(current_time, end_local)
             dbh == get_business_hours_for_day(business_hours, weekday(current_time))
             day_uptime == IF dbh # <<>>
                           THEN calculate_day_uptime(status_observations, dbh[1],
                                                     current_time, day_end)
                           ELSE DZero
         IN UptimeDays(status_observations, business_hours, NextDay(current_time),
                       end_local, DAdd(total_uptime, day_uptime))

calculate_uptime_for_period(status_observations, business_hours, store_tz, start_time, end_time) ==
    LET start_local == astimezone(start_time, store_tz)
        end_local == astimezone(end_time, store_tz)
        total_uptime == UptimeDays(status_observations, business_hours,
                                   start_local, end_local, DZero)
        period == TSub(end_time, start_time)
    IN IF TLe(period, T(SecondsPerHour, 0))
       THEN DMul(total_uptime, MinutesPerHour)
       ELSE total_uptime

RECURSIVE BusinessDays(_, _, _, _)
BusinessDays(business_hours, current_time, end_local, total_hours) ==
    IF ~TLt(current_time.t, end_local.t) THEN total_hours
    ELSE LET day_end == DayEnd(current_time, end_local)
             dbh == get_business_hours_for_day(business_hours, weekday(current_time))
             period_start == LMax(replace(current_time, dbh[1].start_time_local, 0),
                                  current_time)
             period_end == LMin(BhEnd(dbh[1], current_time), day_end)
             add == IF dbh # <<>> /\ TLt(period_start.t, period_end.t)
                    THEN TSub(period_end.t, period_start.t)
                    ELSE DZero
         IN BusinessDays(business_hours, NextDay(current_time), end_local,
                         DAdd(total_hours, add))

calculate_total_business_hours(business_hours, store_tz, start_time, end_time) ==
    BusinessDays(business_hours, astimezone(start_time, store_tz),
                 astimezone(end_time, store_tz), DZero)

MinusSeconds(t, n) == T(t.s - n, t.u)

\* the numbers of calculate_store_metrics, from what its three reads returned
ComputeMetrics(store_tz, business_hours, status_observations, current_time) ==
    LET one_hour_ago == MinusSeconds(current_time, SecondsPerHour)
        one_day_ago == MinusSeconds(current_time, SecondsPerDay)
        one_week_ago == MinusSeconds(current_time, DaysPerWeek * SecondsPerDay)
        up(from) == calculate_uptime_for_period(status_observations, business_hours,
                                                store_tz, from, current_time)
        total(from) == calculate_total_business_hours(business_hours, store_tz,
                                                      from, current_time)
    IN [uptime_last_hour |-> up(one_hour_ago),
        uptime_last_day |-> up(one_day_ago),
        uptime_last_week |-> up(one_week_ago),
        downtime_last_hour |->
            MaxZeroDiff(DMul(total(one_hour_ago), MinutesPerHour), up(one_hour_ago)),
        downtime_last_day |-> MaxZeroDiff(total(one_day_ago), up(one_day_ago)),
        downtime_last_week |-> MaxZeroDiff(total(one_week_ago), up(one_week_ago))]

\* ------------------------------------------------------ validate_metrics
\* 60.1, 24.1 and 168.1 as numbers of hours kept as durations
HourTotalLimit == T(216360, 0)

DayTotalLimit == T(86760, 0)

WeekTotalLimit == T(605160, 0)

\* <<>> for None, <<kind>> for a message
validate_metrics(metrics) ==
    LET hour_total == DAdd(metrics.uptime_last_hour, metrics.downtime_last_hour)
        day_total == DAdd(metrics.uptime_last_day, metrics.downtime_last_day)
        week_total == DAdd(metrics.uptime_last_week, metrics.downtime_last_week)
    IN IF TLt(HourTotalLimit, hour_total) THEN <<"Hour total out of range">>
       ELSE IF TLt(DayTotalLimit, day_total) THEN <<"Day total out of range">>
       ELSE IF TLt(WeekTotalLimit, week_total) THEN <<"Week total out of range">>
       ELSE IF /\ metrics.uptime_last_hour = DZero /\ metrics.uptime_last_day = DZero
               /\ metrics.uptime_last_week = DZero /\ metrics.downtime_last_hour = DZero
               /\ metrics.downtime_last_day = DZero /\ metrics.downtime_last_week = DZero
            THEN <<"All metrics are zero">>
       ELSE <<>>

\* ------------------------------------------------------------- input files
\* data/store_status.csv, data/menu_hours.csv and data/timezones.csv.  Model
\* day 8 is a Tuesday; the polls fall on its afternoon (UTC).  Store s3 has
\* hours and a timezone but no poll.
Day8 == 8 * SecondsPerDay

CsvStoreStatus ==
    <<[store_id |-> "s1", timestamp_utc |-> T(Day8 + 12 * SecondsPerHour, 0),
       status |-> "active"],
      [store_id |-> "s1", timestamp_utc |-> T(Day8 + 13 * SecondsPerHour, 0),
       status |-> "inactive"],
      [store_id |-> "s2", timestamp_utc |-> T(Day8 + 13 * SecondsPerHour + 1800, 0),
       status |-> "active"]>>

CsvMenuHours ==
    <<[store_id |-> "s1", day_of_week |-> 1,
       start_time_local |-> 6 * SecondsPerHour, end_time_local |-> 19 * SecondsPerHour],
      [store_id |-> "s3", day_of_week |-> 0,
       start_time_local |-> 9 * SecondsPerHour, end_time_local |-> 17 * SecondsPerHour]>>

CsvTimezones ==
    <<[store_id |-> "s3", timezone_str |-> "Asia/Kolkata"]>>

\* batch_size of load_store_status_data (1000 in the program), scaled to the
\* size of the model's file
BatchSize == 2

\* --------------------------------------------------------------- job state
JobIds == 1..MaxJobs

Running == "Running"

Complete == "Complete"

Failed == "Failed"

\* os.path.join(reports_dir, f"store_report_{report_id}.csv")
FilePath(report_id) == [dir |-> "reports", report_id |-> report_id]

\* Python truthiness of an optional string (<<>> is None): a message may be
\* empty, a joined path never is
Truthy(opt) == opt # <<>> /\ opt[1] # ""

TruthyPath(opt) == opt # <<>>

NewReport(report_id) ==
    [status |-> Running, file_path |-> <<>>, error_message |-> <<>>]

InsertReportUncommitted(reps, report_id) == reps

InsertReport(reps, report_id) ==
    [j \in DOMAIN reps \cup {report_id} |->
        IF j = report_id THEN NewReport(report_id) ELSE reps[j]]

update_report_status_all_rows(reps, report_id, status, file_path, error_message) ==
    [j \in DOMAIN reps |->
        [status |-> status,
         file_path |-> IF TruthyPath(file_path) THEN file_path ELSE reps[j].file_path,
         error_message |-> IF Truthy(error_message) THEN error_message
                           ELSE reps[j].error_message]]

\* _update_report_status, given that scalar_one() found the row
update_report_status(reps, report_id, status, file_path, error_message) ==
    [reps EXCEPT ![report_id] =
        [status |-> status,
         file_path |-> IF TruthyPath(file_path) THEN file_path ELSE @.file_path,
         error_message |-> IF Truthy(error_message) THEN error_message
                           ELSE @.error_message]]

\* get_report_status: the dict it returns, as a function of its keys
get_report_status(reps, report_id) ==
    IF report_id \notin DOMAIN reps THEN [error |-> <<"Report not found">>]
    ELSE IF reps[report_id].status = Complete
         THEN [status |-> reps[report_id].status, file_path |-> reps[report_id].file_path]
    ELSE IF reps[report_id].status = Failed
         THEN [status |-> reps[report_id].status, error |-> reps[report_id].error_message]
    ELSE [status |-> reps[report_id].status]

\* GET /get_report: the HTTP outcome built on get_report_status
get_report(reps, existing_files, report_id) ==
    LET result == get_report_status(reps, report_id)
    IN IF "error" \in DOMAIN result
       THEN [code |-> 404, detail |-> result.error]
       ELSE IF result.status = Complete
            THEN IF result.file_path = <<>>
                 THEN [code |-> 500, detail |-> <<"Failed to get report">>]
                 ELSE IF result.file_path[1] \in existing_files
                 THEN [code |-> 200, file |-> result.file_path[1]]
                 ELSE [code |-> 404, detail |-> <<"Report file not found">>]
       ELSE [code |-> 200, status |-> result.status]

\* select(func.max(StoreStatus.timestamp_utc)): None on an empty table
RECURSIVE MaxOf(_, _)
MaxOf(rows, best) ==
    IF rows = <<>> THEN best
    ELSE MaxOf(Tail(rows),
               IF TLt(best, rows[1].timestamp_utc) THEN rows[1].timestamp_utc ELSE best)

get_max_timestamp(store_status_table) == MaxOf(store_status_table, NoneTime)

DistinctStoreIds(store_status_table) ==
    {store_status_table[i].store_id : i \in DOMAIN store_status_table}

get_all_store_ids_not_distinct(store_status_table) ==
    {[i \in DOMAIN store_status_table |-> store_status_table[i].store_id]}

\* the lists SELECT DISTINCT store_id may return: each id once, in an order the
\* statement does not fix
get_all_store_ids(store_status_table) ==
    LET ids == DistinctStoreIds(store_status_table)
    IN {seq \in [1..Cardinality(ids) -> ids] :
            \A i, k \in DOMAIN seq : i # k => seq[i] # seq[k]}

ZeroRow(store_id) ==
    [store_id |-> store_id,
     uptime_last_hour |-> DZero, uptime_last_day |-> DZero, uptime_last_week |-> DZero,
     downtime_last_hour |-> DZero, downtime_last_day |-> DZero,
     downtime_last_week |-> DZero]

MetricsRow(store_id, metrics) ==
    [store_id |-> store_id,
     uptime_last_hour |-> metrics.uptime_last_hour,
     uptime_last_day |-> metrics.uptime_last_day,
     uptime_last_week |-> metrics.uptime_last_week,
     downtime_last_hour |-> metrics.downtime_last_hour,
     downtime_last_day |-> metrics.downtime_last_day,
     downtime_last_week |-> metrics.downtime_last_week]

\* ------------------------------------------------------------------ state
VARIABLES
    store_status,      \* table store_status, in insertion order
    business_hours,    \* table business_hours
    store_timezone,    \* table store_timezone
    ingest,            \* the startup task load_data_background
    reports,           \* table reports: report_id -> row
    tasks,             \* per report id: the trigger call and its _generate_report task
    files              \* reports/: file path -> rows written

vars == <<store_status, business_hours, store_timezone, ingest, reports, tasks,
          files>>

data == <<store_status, business_hours, store_timezone, ingest>>

FreeTask ==
    [pc |-> "free", current_time |-> NoneTime, store_ids |-> <<>>, idx |-> 0,
     report_data |-> <<>>, validation_errors |-> <<>>, timezone_str |-> "",
     business_hours |-> <<>>, error_message |-> ""]

Init ==
    /\ store_status = <<>>
    /\ business_hours = <<>>
    /\ store_timezone = <<>>
    /\ ingest = [pc |-> "store_status", i |-> 0]
    /\ reports = <<>>
    /\ tasks = [j \in JobIds |-> FreeTask]
    /\ files = <<>>

\* ---------------------------------------------------------------- ingestion
Min(a, b) == IF a < b THEN a ELSE b

\* The steps of load_all_data are its commits.  A step that raises ends the
\* task and leaves the tables as they are, which for the tables is the task
\* never taking its next step; the task may stop after any step.
\* One batch of load_store_status_data: add_all + commit.  The DELETE runs in
\* the same session and becomes visible with the first commit.
IngestStatusBatch ==
    /\ ingest.pc = "store_status"
    /\ ingest.i < Len(CsvStoreStatus)
    /\ LET upto == Min(ingest.i + BatchSize, Len(CsvStoreStatus))
           batch == SubSeq(CsvStoreStatus, ingest.i + 1, upto)
       IN /\ store_status' = (IF ingest.i = 0 THEN <<>> ELSE store_status) \o batch
          /\ ingest' = IF upto = Len(CsvStoreStatus)
                       THEN [pc |-> "business_hours", i |-> 0]
                       ELSE [pc |-> "store_status", i |-> upto]
    /\ UNCHANGED <<business_hours, store_timezone, reports, tasks, files>>

\* load_business_hours_data: DELETE and all rows in one commit
IngestBusinessHours ==
    /\ ingest.pc = "business_hours"
    /\ business_hours' = CsvMenuHours
    /\ ingest' = [pc |-> "store_timezone", i |-> 0]
    /\ UNCHANGED <<store_status, store_timezone, reports, tasks, files>>

\* load_timezone_data: DELETE and all rows in one commit
IngestTimezones ==
    /\ ingest.pc = "store_timezone"
    /\ store_timezone' = CsvTimezones
    /\ ingest' = [pc |-> "done", i |-> 0]
    /\ UNCHANGED <<store_status, business_hours, reports, tasks, files>>

\* ------------------------------------------------------------ trigger, poll
\* uuid4(): an id no earlier call drew
FreshIds == {j \in JobIds : tasks[j].pc = "free" /\ \A k \in 1..(j - 1) : tasks[k].pc # "free"}

\* trigger_report up to its commit.  A failing commit raises: the endpoint
\* answers 500, and no row and no task exist.
TriggerCommit ==
    \E j \in FreshIds, ok \in BOOLEAN :
        IF ok
        THEN /\ reports' = InsertReport(reports, j)
             /\ tasks' = [tasks EXCEPT ![j].pc = "created"]
             /\ UNCHANGED <<data, files>>
        ELSE UNCHANGED vars

\* asyncio.create_task(self._generate_report(report_id)); return report_id
TriggerReturn(j) ==
    /\ tasks[j].pc = "created"
    /\ tasks' = [tasks EXCEPT ![j].pc = "max_timestamp"]
    /\ UNCHANGED <<data, reports, files>>

\* the ids trigger_report has returned to its caller
Returned == {j \in JobIds : tasks[j].pc \notin {"free", "created"}}

\* the ids a caller may ask for: those returned, and ids no trigger has
\* returned (yet)
PollIds == JobIds

\* GET /get_report: a read.  What the caller gets is get_report(...) of the
\* state the read sees; nothing is written.
GetReport(j) ==
    /\ get_report(reports, DOMAIN files, j).code \in {200, 404, 500}
    /\ UNCHANGED vars

\* -------------------------------------------------------- _generate_report
\* Each action is the code between two awaits of the task of report j.  A
\* database or file operation either takes effect and returns, or raises and
\* changes nothing (ok = FALSE).  The print() calls are log lines: they are
\* taken to return, so the one after the COMPLETE write does not lead into the
\* except clause.
\* str(e) of the exceptions that reach the outer except clause, by where
\* they are raised
MaxTimestampError == "max timestamp query failed"

StoreIdsError == "store ids query failed"

NoDataError == "No data to write to CSV"

IoError == "report file write failed"

StatusWriteError == "status update failed"

EntityError == "store processing failed"

\* str(e) of an exception raised without arguments, as TimeoutError() or
\* MemoryError()
NoMessage == ""

\* The except clause of _generate_report catches e: update FAILED comes next.
\* It reads report_id and e only; the other locals are dead from here on.
Fatal(t, message) == [FreeTask EXCEPT !.pc = "update_failed", !.error_message = message]

AfterEntity(t) ==
    IF t.idx >= Len(t.store_ids) THEN "write_report" ELSE "timezone"

\* the inner except clause: a zero row for the store, and the loop goes on
EntityFailedReraised(t) == Fatal(t, EntityError)

\* the inner except clause without its report_data.append
EntityFailedSkipped(t) ==
    [t EXCEPT !.validation_errors =
                  Append(@, <<t.store_ids[t.idx], "Processing failed">>),
              !.idx = @ + 1, !.timezone_str = "", !.business_hours = <<>>,
              !.pc = AfterEntity(t)]

EntityFailed(t) ==
    [t EXCEPT !.report_data = Append(@, ZeroRow(t.store_ids[t.idx])),
              !.validation_errors =
                  Append(@, <<t.store_ids[t.idx], "Processing failed">>),
              !.idx = @ + 1, !.timezone_str = "", !.business_hours = <<>>,
              !.pc = AfterEntity(t)]

EntityDone(t, metrics) ==
    LET validation_result == validate_metrics(metrics)
    IN [t EXCEPT !.report_data = Append(@, MetricsRow(t.store_ids[t.idx], metrics)),
                 !.validation_errors =
                     IF validation_result # <<>>
                     THEN Append(@, <<t.store_ids[t.idx], validation_result[1]>>)
                     ELSE @,
                 !.idx = @ + 1, !.timezone_str = "", !.business_hours = <<>>,
                 !.pc = AfterEntity(t)]

GetMaxTimestamp(j) ==
    /\ tasks[j].pc = "max_timestamp"
    /\ \/ tasks' = [tasks EXCEPT ![j] =
              [@ EXCEPT !.current_time = get_max_timestamp(store_status),
                        !.pc = "store_ids"]]
       \/ \E message \in {MaxTimestampError, NoMessage} :
              tasks' = [tasks EXCEPT ![j] = Fatal(@, message)]
    /\ UNCHANGED <<data, reports, files>>

GetAllStoreIds(j) ==
    /\ tasks[j].pc = "store_ids"
    /\ \/ \E ids \in get_all_store_ids(store_status) :
            tasks' = [tasks EXCEPT ![j] =
                [@ EXCEPT !.store_ids = ids, !.idx = 1,
                          !.pc = IF ids = <<>> THEN "write_report" ELSE "timezone"]]
       \/ tasks' = [tasks EXCEPT ![j] = Fatal(@, StoreIdsError)]
    /\ UNCHANGED <<data, reports, files>>

\* calculate_store_metrics up to the timezone read and pytz.timezone()
StoreTimezone(j) ==
    /\ tasks[j].pc = "timezone"
    /\ \E ok \in BOOLEAN :
        LET t == tasks[j]
            tz == get_store_timezone(store_timezone, t.store_ids[t.idx])
        IN tasks' = [tasks EXCEPT ![j] =
               IF ok /\ tz \in ZoneNames
               THEN [t EXCEPT !.timezone_str = tz, !.pc = "business_hours"]
               ELSE EntityFailed(t)]
    /\ UNCHANGED <<data, reports, files>>

\* ... up to the business-hours read; current_time - timedelta raises on None
StoreBusinessHours(j) ==
    /\ tasks[j].pc = "business_hours"
    /\ \E ok \in BOOLEAN :
        LET t == tasks[j]
        IN tasks' = [tasks EXCEPT ![j] =
               IF ok /\ t.current_time # NoneTime
               THEN [t EXCEPT !.business_hours =
                                  get_business_hours(business_hours, t.store_ids[t.idx]),
                              !.pc = "observations"]
               ELSE EntityFailed(t)]
    /\ UNCHANGED <<data, reports, files>>

\* ... the observations read, the six numbers, validation, the row
StoreObservations(j) ==
    /\ tasks[j].pc = "observations"
    /\ \E ok \in BOOLEAN :
        LET t == tasks[j]
        IN tasks' = [tasks EXCEPT ![j] =
               IF ok
               THEN EntityDone(t,
                       ComputeMetrics(t.timezone_str, t.business_hours,
                           get_status_observations(store_status, t.store_ids[t.idx],
                               MinusSeconds(t.current_time, DaysPerWeek * SecondsPerDay),
                               t.current_time),
                           t.current_time))
               ELSE EntityFailed(t)]
    /\ UNCHANGED <<data, reports, files>>

PutFile(fs, path, rows) ==
    [p \in DOMAIN fs \cup {path} |-> IF p = path THEN rows ELSE fs[p]]

\* csv_writer.write_report: ValueError on no rows; else the file is written in
\* the executor, or the write raises after part of the rows (or none).  After
\* it only report_id and file_path (a function of report_id) are read.
WriteReport(j) ==
    /\ tasks[j].pc = "write_report"
    /\ IF tasks[j].report_data = <<>>
       THEN /\ tasks' = [tasks EXCEPT ![j] = Fatal(@, NoDataError)]
            /\ UNCHANGED files
       ELSE \/ /\ files' = PutFile(files, FilePath(j), tasks[j].report_data)
               /\ tasks' = [tasks EXCEPT ![j] = [FreeTask EXCEPT !.pc = "update_complete"]]
            \/ /\ tasks' = [tasks EXCEPT ![j] = Fatal(@, IoError)]
               /\ \/ UNCHANGED files
                  \/ files' = PutFile(files, FilePath(j),
                                      SubSeq(tasks[j].report_data, 1,
                                             Len(tasks[j].report_data) - 1))
    /\ UNCHANGED <<data, reports>>

\* the coroutine returned (or raised): its frame is gone
EndedIntoExcept(how) ==
    IF how = "done" THEN Fatal(FreeTask, StatusWriteError) ELSE [FreeTask EXCEPT !.pc = how]

Ended(how) == [FreeTask EXCEPT !.pc = how]

\* _update_report_status(report_id, COMPLETE, file_path); scalar_one() raises
\* when the row is missing
UpdateComplete(j) ==
    /\ tasks[j].pc = "update_complete"
    /\ \E ok \in BOOLEAN :
        IF ok /\ j \in DOMAIN reports
        THEN /\ reports' = update_report_status(reports, j, Complete,
                                                <<FilePath(j)>>, <<>>)
             /\ tasks' = [tasks EXCEPT ![j] = Ended("done")]
        ELSE /\ tasks' = [tasks EXCEPT ![j] = Fatal(@, StatusWriteError)]
             /\ UNCHANGED reports
    /\ UNCHANGED <<data, files>>

\* _update_report_status(report_id, FAILED, error_message=str(e)) in the except
\* clause; an exception here leaves the task
UpdateFailed(j) ==
    /\ tasks[j].pc = "update_failed"
    /\ \E ok \in BOOLEAN :
        IF ok /\ j \in DOMAIN reports
        THEN /\ reports' = update_report_status(reports, j, Failed, <<>>,
                                                <<tasks[j].error_message>>)
             /\ tasks' = [tasks EXCEPT ![j] = Ended("done")]
        ELSE /\ tasks' = [tasks EXCEPT ![j] = Ended("raised")]
             /\ UNCHANGED reports
    /\ UNCHANGED <<data, files>>

GenerateReport(j) ==
    \/ GetMaxTimestamp(j)
    \/ GetAllStoreIds(j)
    \/ StoreTimezone(j)
    \/ StoreBusinessHours(j)
    \/ StoreObservations(j)
    \/ WriteReport(j)
    \/ UpdateComplete(j)
    \/ UpdateFailed(j)

Next ==
    \/ IngestStatusBatch
    \/ IngestBusinessHours
    \/ IngestTimezones
    \/ TriggerCommit
    \/ \E j \in JobIds : TriggerReturn(j)
    \/ \E j \in JobIds : GenerateReport(j)
    \/ \E j \in PollIds : GetReport(j)

Spec == Init /\ [][Next]_vars

\* ===================================================== the calculation
\* The per-store calculation over other input files: a run that has read the
\* as-of instant and the store list from fully loaded tables, and walks the
\* stores with the steps of calculate_store_metrics.
MaxObs == 2

\* the as-of instants: Tuesday 12:00 UTC; 00:30 UTC, the last hour crossing
\* midnight UTC; 05:15:00.5 UTC, the last hour crossing midnight in Chicago.
\* The last week of each holds the Chicago clock change.
CalcAsOfs ==
    {T(Day8 + 12 * SecondsPerHour, 0), T(Day8 + 1800, 0),
     T(Day8 + 5 * SecondsPerHour + 900, 500000)}

\* how long before the as-of instant a poll of s1 may lie (seconds)
CalcOffsets == <<0, 1200, SecondsPerHour, 5 * SecondsPerHour, SecondsPerDay + 60,
                 DaysPerWeek * SecondsPerDay, 8 * SecondsPerDay>>

CalcStatuses == {"active", "inactive"}

Hours(store_id, day, start, end) ==
    [store_id |-> store_id, day_of_week |-> day,
     start_time_local |-> start, end_time_local |-> end]

EveryDay(store_id, start, end) ==
    [day \in 1..DaysPerWeek |-> Hours(store_id, day - 1, start, end)]

\* one overnight rule, Saturday 22:00 to Sunday 06:00: inside the last week of
\* every as-of instant above, in every timezone
SaturdayNight == <<Hours("s1", 5, 22 * SecondsPerHour, 6 * SecondsPerHour)>>

MondayOnly == <<Hours("s1", 0, 9 * SecondsPerHour, 17 * SecondsPerHour)>>

\* menu_hours.csv: no row for s1; 09:00-17:00 every day; 22:00-06:00 every
\* day; Monday 09:00-17:00 and Tuesday 00:00-00:00; Thursday only; two rows
\* for Tuesday; Saturday night only; Monday only
CalcHoursTables ==
    {<<>>,
     EveryDay("s1", 9 * SecondsPerHour, 17 * SecondsPerHour),
     EveryDay("s1", 22 * SecondsPerHour, 6 * SecondsPerHour),
     <<Hours("s1", 0, 9 * SecondsPerHour, 17 * SecondsPerHour), Hours("s1", 1, 0, 0)>>,
     <<Hours("s1", 3, 6 * SecondsPerHour, 19 * SecondsPerHour)>>,
     <<Hours("s1", 1, 9 * SecondsPerHour, 12 * SecondsPerHour),
       Hours("s1", 1, 0, EndOfDayTod)>>,
     SaturdayNight,
     MondayOnly}

CalcTimezoneTables ==
    {<<>>} \cup {<<[store_id |-> "s1", timezone_str |-> z]>> : z \in {"Asia/Kolkata", "UTC"}}

\* the polls of s1 chosen by picked (at least one: s1 is in the store list),
\* in file order, then one poll of s2 at the as-of instant
CalcStatusTable(as_of, picked, status_of) ==
    LET RECURSIVE Rows(_)
        Rows(i) ==
            IF i > Len(CalcOffsets) THEN <<>>
            ELSE (IF i \in picked
                  THEN <<[store_id |-> "s1",
                          timestamp_utc |-> MinusSeconds(as_of, CalcOffsets[i]),
                          status |-> status_of[i]]>>
                  ELSE <<>>) \o Rows(i + 1)
    IN Rows(1) \o <<[store_id |-> "s2", timestamp_utc |-> as_of, status |-> "active"]>>

CalcStatusTables ==
    {CalcStatusTable(as_of, picked, status_of) :
        as_of \in CalcAsOfs,
        picked \in {p \in SUBSET DOMAIN CalcOffsets : p # {} /\ Cardinality(p) <= MaxObs},
        status_of \in [DOMAIN CalcOffsets -> CalcStatuses]}

CalcInit ==
    /\ store_status \in CalcStatusTables
    /\ business_hours \in CalcHoursTables
    /\ store_timezone \in CalcTimezoneTables
    /\ ingest = [pc |-> "done", i |-> 0]
    /\ reports = InsertReport(<<>>, 1)
    /\ tasks = [j \in JobIds |->
                  IF j = 1
                  THEN [FreeTask EXCEPT !.pc = "timezone",
                                        !.current_time = get_max_timestamp(store_status),
                                        !.store_ids = <<"s1", "s2">>,
                                        !.idx = 1]
                  ELSE FreeTask]
    /\ files = <<>>

CalcNext ==
    \/ StoreTimezone(1)
    \/ StoreBusinessHours(1)
    \/ StoreObservations(1)

CalcSpec == CalcInit /\ [][CalcNext]_vars

\* ================================================================== claims
Terminal == {Complete, Failed}

TaskEnded(j) == tasks[j].pc \in {"done", "raised"}

Range(seq) == {seq[i] : i \in DOMAIN seq}

C2_EndedTaskIsTerminal ==
    \A j \in JobIds : TaskEnded(j) => reports[j].status \in Terminal

NotFoundResult == [error |-> <<"Report not found">>]

\* C3: polling a Failed job never gives the not-found outcome (the error-only
\* result of get_report_status, HTTP 404 of /get_report), and polling an
\* unknown id never gives a Failed state.
C3_NotFoundDistinctFromFailed ==
    \A j \in PollIds :
        /\ (j \in DOMAIN reports /\ reports[j].status = Failed) =>
              /\ get_report_status(reports, j) # NotFoundResult
              /\ get_report(reports, DOMAIN files, j).code # 404
        /\ j \notin DOMAIN reports =>
              /\ "status" \notin DOMAIN get_report_status(reports, j)
              /\ "status" \notin DOMAIN get_report(reports, DOMAIN files, j)

InLoop(t) == t.pc \in {"timezone", "business_hours", "observations"}

\* the row calculate_store_metrics gives the store a task is at, from the
\* task's reads so far and the observations as they are now
NormalRow(t) ==
    MetricsRow(t.store_ids[t.idx],
        ComputeMetrics(t.timezone_str, t.business_hours,
            get_status_observations(store_status, t.store_ids[t.idx],
                MinusSeconds(t.current_time, DaysPerWeek * SecondsPerDay),
                t.current_time),
            t.current_time))

\* C4: a step of the per-store loop never leaves the loop for the failure
\* path and never changes the job's row: it either goes on within the store,
\* or appends exactly one row for that store, all six values zero when the
\* computation raised and the normally computed row otherwise, keeps the rows
\* of the stores before it, and moves to the next store or to the sink; the
\* file of a Complete job has one row per store of the run.
C4_EntityFailureIsolated ==
    /\ [](\A j \in DOMAIN reports :
            reports[j].status = Complete =>
                /\ FilePath(j) \in DOMAIN files
                /\ files[FilePath(j)] # <<>>)
    /\ [][\A j \in JobIds :
            (InLoop(tasks[j]) /\ tasks'[j] # tasks[j]) =>
                LET t == tasks[j]
                    n == tasks'[j]
                IN /\ reports' = reports
                   /\ n.store_ids = t.store_ids
                   /\ n.current_time = t.current_time
                   /\ \/ /\ InLoop(n) /\ n.pc # "timezone"
                         /\ n.idx = t.idx
                         /\ n.report_data = t.report_data
                      \/ /\ n.idx = t.idx + 1
                         /\ n.pc = IF t.idx = Len(t.store_ids)
                                   THEN "write_report" ELSE "timezone"
                         /\ \/ n.report_data =
                                   Append(t.report_data, ZeroRow(t.store_ids[t.idx]))
                            \/ /\ t.pc = "observations"
                               /\ n.report_data = Append(t.report_data, NormalRow(t))]_vars

\* a Complete job whose report has an all-zero row beside a populated row
C4_Witness ==
    \E j \in DOMAIN reports :
        /\ reports[j].status = Complete
        /\ FilePath(j) \in DOMAIN files
        /\ \E a, b \in DOMAIN files[FilePath(j)] :
              /\ files[FilePath(j)][a] = ZeroRow(files[FilePath(j)][a].store_id)
              /\ files[FilePath(j)][b] # ZeroRow(files[FilePath(j)][b].store_id)
              /\ tasks[j].pc = "done"

\* the business hours of the window of n seconds that ends at the task's
\* as-of instant
TotalHours(t, n) ==
    calculate_total_business_hours(t.business_hours, t.timezone_str,
                                   MinusSeconds(t.current_time, n), t.current_time)

\* C5: for a store whose computation does not fail, in each of the three
\* windows uptime + downtime equals the business hours of the window (in
\* minutes for the last hour), and uptime does not exceed the business hours.
C5_UptimePlusDowntimeIsBusinessHours ==
    [][\A j \in JobIds :
        (/\ tasks[j].pc = "observations"
         /\ Len(tasks'[j].report_data) = Len(tasks[j].report_data) + 1
         /\ tasks'[j].report_data[Len(tasks'[j].report_data)]
                # ZeroRow(tasks[j].store_ids[tasks[j].idx])) =>
            LET t == tasks[j]
                row == tasks'[j].report_data[Len(tasks'[j].report_data)]
                hour == DMul(TotalHours(t, SecondsPerHour), MinutesPerHour)
                day == TotalHours(t, SecondsPerDay)
                week == TotalHours(t, DaysPerWeek * SecondsPerDay)
            IN /\ DAdd(row.uptime_last_hour, row.downtime_last_hour) = hour
               /\ DAdd(row.uptime_last_day, row.downtime_last_day) = day
               /\ DAdd(row.uptime_last_week, row.downtime_last_week) = week
               /\ TLe(row.uptime_last_hour, hour)
               /\ TLe(row.uptime_last_day, day)
               /\ TLe(row.uptime_last_week, week)]_vars

\* a row with uptime and downtime both above zero in every window, of a store
\* with an overnight rule and a timezone of its own
C5_Witness ==
    \E j \in JobIds :
        /\ tasks[j].report_data # <<>>
        /\ LET row == tasks[j].report_data[1]
           IN /\ row.store_id = "s1"
              /\ TLt(DZero, row.uptime_last_hour) /\ TLt(DZero, row.downtime_last_hour)
              /\ TLt(DZero, row.uptime_last_day) /\ TLt(DZero, row.downtime_last_day)
              /\ TLt(DZero, row.uptime_last_week) /\ TLt(DZero, row.downtime_last_week)
        /\ store_timezone # <<>>
        /\ \E i \in DOMAIN business_hours :
              business_hours[i].end_time_local <= business_hours[i].start_time_local

RowIds(rows) == [i \in DOMAIN rows |-> rows[i].store_id]

IdsOf(table) == {table[i].store_id : i \in DOMAIN table}

\* stores of the hours or timezone files that have no poll
CalendarOnlyIds == (IdsOf(CsvMenuHours) \cup IdsOf(CsvTimezones)) \ IdsOf(CsvStoreStatus)

\* C6: the store list a run reads holds each distinct store id of the
\* store_status table once; the report written holds exactly one row per id
\* of that list, in its order; so the report of a Complete job has no two rows
\* for one store and no row for a store known only from hours or timezones.
C6_OneRowPerObservedStore ==
    /\ [](\A j \in DOMAIN reports :
            reports[j].status = Complete =>
                LET rows == files[FilePath(j)]
                IN /\ \A a, b \in DOMAIN rows :
                        a # b => rows[a].store_id # rows[b].store_id
                   /\ \A a \in DOMAIN rows : rows[a].store_id \notin CalendarOnlyIds)
    /\ [][\A j \in JobIds :
            (tasks[j].pc = "store_ids" /\ tasks'[j].pc \in {"timezone", "write_report"}) =>
                /\ Range(tasks'[j].store_ids) = DistinctStoreIds(store_status)
                /\ Len(tasks'[j].store_ids) = Cardinality(DistinctStoreIds(store_status))]_vars
    /\ [][\A j \in JobIds :
            (tasks[j].pc = "write_report" /\ tasks'[j].pc = "update_complete") =>
                RowIds(files'[FilePath(j)]) = tasks[j].store_ids]_vars

\* a Complete report with a row for each polled store, while the hours and
\* timezone tables hold a store that was never polled
C6_Witness ==
    \E j \in DOMAIN reports :
        /\ reports[j].status = Complete
        /\ Range(RowIds(files[FilePath(j)])) = IdsOf(CsvStoreStatus)
        /\ IdsOf(business_hours) \cap CalendarOnlyIds # {}
        /\ IdsOf(store_timezone) \cap CalendarOnlyIds # {}
        /\ Len(store_status) > Cardinality(DistinctStoreIds(store_status))

\* C7: the row of a job exists, in state Running, from the commit of
\* trigger_report on, before the task is created and the id returned: every
\* id returned is found by get_report_status, a poll returns just Running
\* until the task's terminal write, and the task at its status write finds
\* the row.
C7_RowCommittedBeforeReturn ==
    \A j \in JobIds :
        /\ tasks[j].pc # "free" => j \in DOMAIN reports
        /\ j \in Returned =>
              /\ get_report_status(reports, j) # NotFoundResult
              /\ "status" \in DOMAIN get_report_status(reports, j)
              /\ tasks[j].pc # "done" =>
                    /\ get_report_status(reports, j) = [status |-> Running]
                    /\ get_report(reports, DOMAIN files, j) =
                           [code |-> 200, status |-> Running]

\* an id was returned while its task is in the middle of the run
C7_Witness ==
    \E j \in Returned :
        /\ tasks[j].pc = "observations"
        /\ get_report_status(reports, j) = [status |-> Running]

\* C8: every committed trigger has a row of its own; a step changes the row
\* of at most one job, and only the status write of that job's own task does,
\* leaving every other job's row and task as they were; a task that has ended
\* is never started again.
C8_JobsIndependent ==
    /\ [](/\ DOMAIN reports = {j \in JobIds : tasks[j].pc # "free"}
          /\ Cardinality(DOMAIN reports) = Cardinality({j \in JobIds : tasks[j].pc # "free"}))
    /\ [][\A j \in DOMAIN reports :
            reports'[j] # reports[j] =>
                /\ tasks[j].pc \in {"update_complete", "update_failed"}
                /\ tasks'[j].pc = "done"
                /\ \A k \in DOMAIN reports \ {j} :
                      reports'[k] = reports[k] /\ tasks'[k] = tasks[k]]_vars
    /\ [][\A j \in JobIds : TaskEnded(j) => tasks'[j] = tasks[j]]_vars

\* one job has Failed while the task of another is about to write Complete
C8_Witness ==
    \E j, k \in DOMAIN reports :
        /\ j # k
        /\ reports[j].status = Failed
        /\ tasks[k].pc = "update_complete"

\* C9: a poll of an existing job returns the state alone while Running, the
\* state and a non-null file path when Complete, the state and the non-null
\* captured message when Failed; a Complete row carries its file path and a
\* Failed row its message.
C9_PollShape ==
    \A j \in DOMAIN reports :
        LET r == reports[j]
            result == get_report_status(reports, j)
        IN /\ r.status \in {Running, Complete, Failed}
           /\ r.status = Running => result = [status |-> Running]
           /\ r.status = Complete =>
                 /\ r.file_path = <<FilePath(j)>>
                 /\ result = [status |-> Complete, file_path |-> <<FilePath(j)>>]
           /\ r.status = Failed =>
                 /\ r.error_message # <<>>
                 /\ r.error_message[1] # ""
                 /\ result = [status |-> Failed, error |-> r.error_message]

SetupMessages == {MaxTimestampError, StoreIdsError}

\* what _update_report_status leaves in error_message for str(e) = message
Stored(message) == IF message = "" THEN <<>> ELSE <<message>>

FatalMessages == SetupMessages \cup {NoDataError, IoError, StatusWriteError, NoMessage}

IdsAscending == <<"s1", "s2", "s3">>

IdRank(store_id) == CHOOSE i \in DOMAIN IdsAscending : IdsAscending[i] = store_id

\* C11: the rows of the report of a Complete job are in ascending store-id
\* order.
C11_RowsAscending ==
    \A j \in DOMAIN reports :
        reports[j].status = Complete =>
            LET ids == RowIds(files[FilePath(j)])
            IN \A a, b \in DOMAIN ids : a < b => IdRank(ids[a]) < IdRank(ids[b])

\* the rows a task has computed so far without a failure
ComputedRows(j) ==
    {tasks[j].report_data[i] : i \in {k \in DOMAIN tasks[j].report_data :
        tasks[j].report_data[k] # ZeroRow(tasks[j].report_data[k].store_id)}}

PollsOf(store_id) == {store_status[i] : i \in {k \in DOMAIN store_status : store_status[k].store_id = store_id}}

FullWeek == T(DaysPerWeek * SecondsPerDay, 0)

\* C12: a store with no business-hours rule that was polled in the last week
\* and whose polls are all active has uptime_last_week of 168 hours and
\* downtime_last_week of 0.
C12_AlwaysActiveWeekIs168Hours ==
    \A j \in JobIds : \A row \in ComputedRows(j) :
        (/\ row.store_id \notin IdsOf(business_hours)
         /\ \E o \in PollsOf(row.store_id) :
               TLe(MinusSeconds(tasks[j].current_time, FullWeek.s), o.timestamp_utc)
         /\ \A o \in PollsOf(row.store_id) : o.status = "active") =>
            /\ row.uptime_last_week = FullWeek
            /\ row.downtime_last_week = DZero

\* the length of a rule taken as one span, overnight when end <= start
RuleSpan(bh) ==
    IF bh.end_time_local <= bh.start_time_local
    THEN T(bh.end_time_local + SecondsPerDay - bh.start_time_local, 0)
    ELSE T(bh.end_time_local - bh.start_time_local, 0)

\* C13: an overnight rule that lies inside the last week is credited with its
\* full span: the week's business hours (uptime + downtime) of a store whose
\* one rule is Saturday 22:00-06:00 are 8 hours.
C13_OvernightRuleFullSpan ==
    \A j \in JobIds : \A row \in ComputedRows(j) :
        (row.store_id = "s1" /\ business_hours = SaturdayNight) =>
            DAdd(row.uptime_last_week, row.downtime_last_week) = RuleSpan(SaturdayNight[1])

\* the step of task j that appends the row of a computation that did not fail
Computes(j) ==
    /\ tasks[j].pc = "observations"
    /\ Len(tasks'[j].report_data) = Len(tasks[j].report_data) + 1
    /\ tasks'[j].report_data[Len(tasks'[j].report_data)]
           # ZeroRow(tasks[j].store_ids[tasks[j].idx])

NewRow(j) == tasks'[j].report_data[Len(tasks'[j].report_data)]

\* the segments of a window: per local day, the day's rule cut to the day and
\* to the window, as [start, end] instants; closed days and empty cuts give
\* none
RECURSIVE Segments(_, _, _)
Segments(rules, current_time, end_local) ==
    IF ~TLt(current_time.t, end_local.t) THEN <<>>
    ELSE LET day_end == DayEnd(current_time, end_local)
             dbh == get_business_hours_for_day(rules, weekday(current_time))
             period_start == LMax(replace(current_time, dbh[1].start_time_local, 0),
                                  current_time)
             period_end == LMin(BhEnd(dbh[1], current_time), day_end)
         IN (IF dbh # <<>> /\ TLt(period_start.t, period_end.t)
             THEN <<[start |-> period_start.t, end |-> period_end.t]>>
             ELSE <<>>)
            \o Segments(rules, NextDay(current_time), end_local)

\* the segments of the window of n seconds that ends at the task's as-of instant
WindowSegments(t, n) ==
    Segments(t.business_hours,
             astimezone(MinusSeconds(t.current_time, n), t.timezone_str),
             astimezone(t.current_time, t.timezone_str))

\* the polls of a store that lie in a segment, its two ends included
PollsIn(store_id, seg) ==
    {o \in PollsOf(store_id) : TLe(seg.start, o.timestamp_utc) /\ TLe(o.timestamp_utc, seg.end)}

NoPollInWindow(t, n) ==
    \A i \in DOMAIN WindowSegments(t, n) :
        PollsIn(t.store_ids[t.idx], WindowSegments(t, n)[i]) = {}

TuesdayNoon == T(Day8 + 12 * SecondsPerHour, 0)

NineToFive == EveryDay("s1", 9 * SecondsPerHour, 17 * SecondsPerHour)

SixtyMinutes == DMul(T(SecondsPerHour, 0), MinutesPerHour)

\* C14: a window none of whose segments holds a poll of the store is all
\* uptime: uptime equals the window's business hours and downtime is 0.  For
\* a store open 09:00-17:00, as-of at 12:00 local and no poll in the last
\* hour, uptime_last_hour is 60 minutes and downtime_last_hour is 0.
C14_NoObservationIsUptime ==
    [][\A j \in JobIds : Computes(j) =>
        LET t == tasks[j]
            row == NewRow(j)
        IN /\ NoPollInWindow(t, SecondsPerHour) =>
                 /\ row.uptime_last_hour = DMul(TotalHours(t, SecondsPerHour), MinutesPerHour)
                 /\ row.downtime_last_hour = DZero
           /\ NoPollInWindow(t, SecondsPerDay) =>
                 /\ row.uptime_last_day = TotalHours(t, SecondsPerDay)
                 /\ row.downtime_last_day = DZero
           /\ NoPollInWindow(t, DaysPerWeek * SecondsPerDay) =>
                 /\ row.uptime_last_week = TotalHours(t, DaysPerWeek * SecondsPerDay)
                 /\ row.downtime_last_week = DZero
           /\ (/\ t.business_hours = NineToFive
               /\ t.timezone_str = "UTC"
               /\ t.current_time = TuesdayNoon
               /\ \A o \in PollsOf("s1") :
                     TLt(o.timestamp_utc, MinusSeconds(TuesdayNoon, SecondsPerHour))) =>
                 /\ row.uptime_last_hour = SixtyMinutes
                 /\ row.downtime_last_hour = DZero]_vars

\* the store open 09:00-17:00 UTC, as-of Tuesday 12:00, its only poll inactive
\* on Monday 11:59: 60 minutes up in the last hour and no downtime in the last
\* day, downtime in the week, whose Monday segment holds the poll
C14_Witness ==
    \E j \in JobIds :
        /\ business_hours = NineToFive
        /\ tasks[j].current_time = TuesdayNoon
        /\ store_timezone # <<>> /\ store_timezone[1].timezone_str = "UTC"
        /\ PollsOf("s1") =
              {[store_id |-> "s1",
                timestamp_utc |-> MinusSeconds(TuesdayNoon, SecondsPerDay + 60),
                status |-> "inactive"]}
        /\ tasks[j].report_data # <<>>
        /\ tasks[j].report_data[1].store_id = "s1"
        /\ tasks[j].report_data[1].uptime_last_hour = SixtyMinutes
        /\ tasks[j].report_data[1].downtime_last_hour = DZero
        /\ tasks[j].report_data[1].downtime_last_day = DZero
        /\ TLt(DZero, tasks[j].report_data[1].downtime_last_week)

\* the task of job j is between its first read and its last
Reading(j) == tasks[j].pc \in {"store_ids", "timezone", "business_hours", "observations"}

\* C15: while a run is between its first and its last read of the tables, no
\* step changes store_status, business_hours or store_timezone.
C15_TablesFixedDuringRun ==
    [][(\E j \in JobIds : Reading(j)) =>
          UNCHANGED <<store_status, business_hours, store_timezone>>]_vars

\* a set of instants in ascending order
RECURSIVE SortInstants(_)
SortInstants(S) ==
    IF S = {} THEN <<>>
    ELSE LET m == CHOOSE x \in S : \A y \in S : TLe(x, y)
         IN <<m>> \o SortInstants(S \ {m})

\* the state that governs instant x under forward fill of a non-empty set of
\* polls: that of the latest poll at or before x, and before the first poll
\* that of the first
StateAt(polls, x) ==
    LET before == {o \in polls : TLe(o.timestamp_utc, x)}
    IN IF before # {}
       THEN (CHOOSE o \in before : \A p \in before : TLe(p.timestamp_utc, o.timestamp_utc)).status
       ELSE (CHOOSE o \in polls : \A p \in polls : TLe(o.timestamp_utc, p.timestamp_utc)).status

\* the time of a segment whose governing state is active
StepUptime(polls, seg) ==
    LET points == SortInstants({seg.start, seg.end} \cup {o.timestamp_utc : o \in polls})
        RECURSIVE Sum(_)
        Sum(i) ==
            IF i >= Len(points) THEN DZero
            ELSE DAdd(IF StateAt(polls, points[i]) = "active"
                      THEN TSub(points[i + 1], points[i]) ELSE DZero,
                      Sum(i + 1))
    IN Sum(1)

\* the step-function uptime of the window of n seconds of the task's store:
\* a segment with polls by forward fill, one without as a whole
WindowStepUptime(t, n) ==
    LET segs == WindowSegments(t, n)
        RECURSIVE Sum(_)
        Sum(i) ==
            IF i > Len(segs) THEN DZero
            ELSE DAdd(IF PollsIn(t.store_ids[t.idx], segs[i]) = {}
                      THEN TSub(segs[i].end, segs[i].start)
                      ELSE StepUptime(PollsIn(t.store_ids[t.idx], segs[i]), segs[i]),
                      Sum(i + 1))
    IN Sum(1)

PollsInHalfOpen(store_id, seg) ==
    {o \in PollsOf(store_id) : TLe(seg.start, o.timestamp_utc) /\ TLt(o.timestamp_utc, seg.end)}

NoPollInWindowHalfOpen(t, n) ==
    \A i \in DOMAIN WindowSegments(t, n) :
        PollsInHalfOpen(t.store_ids[t.idx], WindowSegments(t, n)[i]) = {}

\* C17: a poll exactly at the end of a segment is outside it: a window whose
\* segments hold no poll at start <= t < end is all uptime, whatever the state
\* of a poll at a segment's end.
C17_SegmentEndExcluded ==
    [][\A j \in JobIds : Computes(j) =>
        LET t == tasks[j]
            row == NewRow(j)
        IN /\ NoPollInWindowHalfOpen(t, SecondsPerHour) =>
                 /\ row.uptime_last_hour = DMul(TotalHours(t, SecondsPerHour), MinutesPerHour)
                 /\ row.downtime_last_hour = DZero
           /\ NoPollInWindowHalfOpen(t, SecondsPerDay) =>
                 /\ row.uptime_last_day = TotalHours(t, SecondsPerDay)
                 /\ row.downtime_last_day = DZero
           /\ NoPollInWindowHalfOpen(t, DaysPerWeek * SecondsPerDay) =>
                 /\ row.uptime_last_week = TotalHours(t, DaysPerWeek * SecondsPerDay)
                 /\ row.downtime_last_week = DZero]_vars

\* the weekdays of the local days a window touches
RECURSIVE Weekdays(_, _)
Weekdays(current_time, end_local) ==
    IF ~TLt(current_time.t, end_local.t) THEN {}
    ELSE {weekday(current_time)} \cup Weekdays(NextDay(current_time), end_local)

WindowWeekdays(t, n) ==
    Weekdays(astimezone(MinusSeconds(t.current_time, n), t.timezone_str),
             astimezone(t.current_time, t.timezone_str))

\* the weekdays for which a list of rules has a rule
OpenWeekdays(rules) == {rules[i].day_of_week : i \in DOMAIN rules}

ThursdayOnly == <<Hours("s1", 3, 6 * SecondsPerHour, 19 * SecondsPerHour)>>

\* C18: a store without any rule is open every weekday from 00:00:00 to
\* 23:59:59; a store with rules has exactly its rules, and a weekday without a
\* rule is closed: a window that touches only such weekdays has uptime 0 and
\* downtime 0, and the week of a store whose one rule is on a weekday wholly
\* inside the week has that rule's span as business hours.
C18_BusinessHoursLookup ==
    /\ [][\A j \in JobIds :
            (tasks[j].pc = "business_hours" /\ tasks'[j].pc = "observations") =>
                LET store_id == tasks[j].store_ids[tasks[j].idx]
                    rules == tasks'[j].business_hours
                IN IF store_id \notin IdsOf(business_hours)
                   THEN /\ Len(rules) = DaysPerWeek
                        /\ \A day \in 0..(DaysPerWeek - 1) :
                              \E i \in DOMAIN rules :
                                 rules[i] = Hours(store_id, day, 0, EndOfDayTod)
                   ELSE rules = SelectSeq(business_hours, LAMBDA bh : bh.store_id = store_id)]_vars
    /\ [][\A j \in JobIds : Computes(j) =>
            LET t == tasks[j]
                row == NewRow(j)
                week == DaysPerWeek * SecondsPerDay
            IN /\ WindowWeekdays(t, SecondsPerHour) \cap OpenWeekdays(t.business_hours) = {} =>
                     row.uptime_last_hour = DZero /\ row.downtime_last_hour = DZero
               /\ WindowWeekdays(t, SecondsPerDay) \cap OpenWeekdays(t.business_hours) = {} =>
                     row.uptime_last_day = DZero /\ row.downtime_last_day = DZero
               /\ t.business_hours \in {ThursdayOnly, MondayOnly} =>
                     \/ t.business_hours[1].day_of_week
                           \in WindowWeekdays(t, SecondsPerDay)
                     \/ DAdd(row.uptime_last_week, row.downtime_last_week)
                           = RuleSpan(t.business_hours[1])]_vars

\* a store open on Thursdays only, polled inactive within the last day: nothing
\* in the last hour and the last day, Thursday's 13 hours in the last week
C18_Witness ==
    \E j \in JobIds :
        /\ business_hours = ThursdayOnly
        /\ \E o \in PollsOf("s1") :
              /\ o.status = "inactive"
              /\ TLe(MinusSeconds(tasks[j].current_time, SecondsPerHour), o.timestamp_utc)
        /\ tasks[j].report_data # <<>>
        /\ LET row == tasks[j].report_data[1]
           IN /\ row.store_id = "s1"
              /\ row.uptime_last_hour = DZero /\ row.downtime_last_hour = DZero
              /\ row.uptime_last_day = DZero /\ row.downtime_last_day = DZero
              /\ DAdd(row.uptime_last_week, row.downtime_last_week) = RuleSpan(ThursdayOnly[1])

\* the rows a run has built so far
RowsOf(j) == {tasks[j].report_data[i] : i \in DOMAIN tasks[j].report_data}

\* the business hours of each window of a row, the hour in minutes
BusinessHour(row) == DAdd(row.uptime_last_hour, row.downtime_last_hour)

BusinessDay(row) == DAdd(row.uptime_last_day, row.downtime_last_day)

BusinessWeek(row) == DAdd(row.uptime_last_week, row.downtime_last_week)

====
